---- MODULE Spec2Model ----
(***************************************************************************)
(* tsbun: a command-line build wrapper.  One run parses the arguments,     *)
(* loads tsbun.config.ts, resolves the entry point, cleans the output      *)
(* directory, calls the bundler, reports, and spawns tsc for declarations. *)
(* The repository holds two versions of the entry script, here called      *)
(* "verbose" (part_002 lines 1-210) and "terse" (part_002 lines 212-398).  *)
(*                                                                         *)
(* Representation.  TLC strings are atomic, so a path string is split into *)
(* its segments by the table Split.  An optional JavaScript value          *)
(* (undefined / null / not yet assigned) is a sequence of length 0 or 1.   *)
(* TLC integers are 32 bits wide, so a byte count is a little-endian       *)
(* sequence of base-1024 limbs without a leading zero limb.                *)
(***************************************************************************)
EXTENDS Integers, Sequences, FiniteSets, TLC

VARIABLES
  argv,        \* process.argv.slice(2)
  configFile,  \* tsbun.config.ts: [exists, throws, module]
  disk,        \* the filesystem before the run: a set of absolute paths
  scheduled,   \* the entry scripts that are run on these inputs
  run,         \* run[s]: the state of script s's main()
  bundler,     \* what Bun.build answers (chosen by the environment at the call)
  tsc,         \* the exit status of the tsc subprocess (chosen at the spawn)
  bytes,       \* formatSize's argument
  formatted    \* formatSize's result

vars == <<argv, configFile, disk, scheduled, run, bundler, tsc, bytes, formatted>>

Scripts == {"verbose", "terse"}

\* ------------------------------------------------------------------ bounds
MaxLogs == 2
MaxOutputs == 2
MaxLimbs == 6

\* ----------------------------------------------------------------- options
None == <<>>
Some(x) == <<x>>
IsSome(o) == Len(o) > 0

\* ------------------------------------------------------------------- paths
Cwd == <<"w", "app">>

Split(p) ==
  CASE p = "" -> <<>>
    [] p = "src/index.ts" -> <<"src", "index.ts">>
    [] p = "../app" -> <<"..", "app">>
    [] p = "../lib/cli.ts" -> <<"..", "lib", "cli.ts">>
    [] OTHER -> <<p>>

RECURSIVE Normalize(_, _)
Normalize(base, segs) ==
  IF Len(segs) = 0 THEN base
  ELSE IF Head(segs) = ".."
       THEN Normalize(IF Len(base) = 0 THEN base ELSE SubSeq(base, 1, Len(base) - 1),
                      Tail(segs))
       ELSE Normalize(Append(base, Head(segs)), Tail(segs))

Resolve(p) == Normalize(Cwd, Split(p))

join(dir, name) == Normalize(dir, Split(name))

IsPrefix(d, q) == Len(d) <= Len(q) /\ SubSeq(q, 1, Len(d)) = d

RECURSIVE CommonLen(_, _)
CommonLen(a, b) ==
  IF Len(a) = 0 \/ Len(b) = 0 \/ Head(a) # Head(b) THEN 0
  ELSE 1 + CommonLen(Tail(a), Tail(b))

relative(from, to) ==
  LET n == CommonLen(from, to)
  IN [i \in 1..(Len(from) - n) |-> ".."] \o SubSeq(to, n + 1, Len(to))

\* -------------------------------------------------------------- filesystem
existsSync(fs, p) == Resolve(p) \in fs

rmTree(fs, p) == {q \in fs : ~IsPrefix(Resolve(p), q)}

\* --------------------------------------------------------------- formatSize
k == 1024

sizes == <<"B", "KB", "MB", "GB", "TB">>

IsZero(b) == Len(b) = 0

\* Math.floor(Math.log(bytes) / Math.log(k)) for bytes >= 1: the index of the
\* most significant base-k limb.
FloorLog(b) == Len(b) - 1

RECURSIVE MulSmall(_, _, _)
MulSmall(b, m, carry) ==
  IF Len(b) = 0
  THEN (IF carry = 0 THEN <<>> ELSE <<carry % k>> \o MulSmall(<<>>, m, carry \div k))
  ELSE LET v == Head(b) * m + carry
       IN <<v % k>> \o MulSmall(Tail(b), m, v \div k)

RECURSIVE AddAt(_, _, _)
AddAt(b, pos, v) ==
  IF v = 0 THEN b
  ELSE IF pos > 1
       THEN <<(IF Len(b) = 0 THEN 0 ELSE Head(b))>>
              \o AddAt(IF Len(b) = 0 THEN <<>> ELSE Tail(b), pos - 1, v)
       ELSE LET w == (IF Len(b) = 0 THEN 0 ELSE Head(b)) + v
            IN <<w % k>> \o AddAt(IF Len(b) = 0 THEN <<>> ELSE Tail(b), 1, w \div k)

RECURSIVE ToInt(_)
ToInt(b) == IF Len(b) = 0 THEN 0 ELSE Head(b) + k * ToInt(Tail(b))

\* (bytes / Math.pow(k, i)).toFixed(2), as a number of hundredths: the
\* quotient rounded to the nearest hundredth, a tie rounded up.
Hundredths(b, i) ==
  LET scaled == MulSmall(b, 100, 0)
      rounded == IF i = 0 THEN scaled ELSE AddAt(scaled, i, k \div 2)
  IN ToInt(SubSeq(rounded, i + 1, Len(rounded)))

UnitAt(i) == IF i + 1 \in DOMAIN sizes THEN sizes[i + 1] ELSE "undefined"

formatSize(b) ==
  IF IsZero(b)
  THEN [whole |-> 0, frac |-> 0, decimals |-> 0, unit |-> "B"]
  ELSE LET i == FloorLog(b)
           h == Hundredths(b, i)
       IN [whole |-> h \div 100, frac |-> h % 100, decimals |-> 2, unit |-> UnitAt(i)]

\* ---------------------------------------------------------------- parseArgs
NoValues == [help |-> FALSE, version |-> FALSE, watch |-> FALSE]

\* The options schema of the call: help (-h), version (-v), watch; positionals
\* allowed; strict, so an option outside the schema throws.
TokenKind(t) ==
  CASE t \in {"--version", "-v"} -> "version"
    [] t \in {"--help", "-h"} -> "help"
    [] t = "--watch" -> "watch"
    [] t = "--bogus" -> "unknown"
    [] OTHER -> "positional"

RECURSIVE parseArgs(_)
parseArgs(args) ==
  IF Len(args) = 0
  THEN [threw |-> FALSE, message |-> "", values |-> NoValues, positionals |-> <<>>]
  ELSE LET rest == parseArgs(Tail(args))
           kind == TokenKind(Head(args))
       IN IF kind = "unknown"
          THEN [rest EXCEPT !.threw = TRUE, !.message = "Unknown option '--bogus'"]
          ELSE IF rest.threw THEN rest
          ELSE IF kind = "version" THEN [rest EXCEPT !.values.version = TRUE]
          ELSE IF kind = "help" THEN [rest EXCEPT !.values.help = TRUE]
          ELSE IF kind = "watch" THEN [rest EXCEPT !.values.watch = TRUE]
          ELSE [rest EXCEPT !.positionals = <<Head(args)>> \o @]

parse(args) ==
  LET r == parseArgs(args)
  IN IF r.threw
     THEN [r EXCEPT !.message = "Error parsing arguments: Unknown option '--bogus'"]
     ELSE r

\* ------------------------------------------------------------------- config
\* TsBunConfig: every field optional; entry is a string or a list of strings.
EntryString(e) == [isArray |-> FALSE, items |-> <<e>>]
EntryArray(es) == [isArray |-> TRUE, items |-> es]

NoModule == [entry |-> None, outdir |-> None, minify |-> None, target |-> None]

ConfigPath == join(Cwd, "tsbun.config.ts")

\* A variant without the try/catch around the import.
loadConfig_NoCatch(s, file) ==
  IF file.exists
  THEN IF file.throws
       THEN [threw |-> TRUE, warned |-> FALSE, config |-> None, path |-> None]
       ELSE [threw |-> FALSE, warned |-> FALSE, config |-> Some(file.module),
             path |-> IF s = "verbose" THEN Some(ConfigPath) ELSE None]
  ELSE [threw |-> FALSE, warned |-> FALSE, config |-> None, path |-> None]

\* loadConfig: the verbose script returns {config, path}, the terse script the
\* config alone; a throwing import is caught, warned about and answered null.
loadConfig(s, file) ==
  IF file.exists
  THEN IF file.throws
       THEN [threw |-> FALSE, warned |-> TRUE, config |-> None, path |-> None]
       ELSE [threw |-> FALSE, warned |-> FALSE, config |-> Some(file.module),
             path |-> IF s = "verbose" THEN Some(ConfigPath) ELSE None]
  ELSE [threw |-> FALSE, warned |-> FALSE, config |-> None, path |-> None]

\* ------------------------------------------------------------ entry, options
\* !entry: undefined or the empty string.
Falsy(e) == ~IsSome(e) \/ e[1] = ""

defaultEntries == <<"index.ts", "src/index.ts">>

RECURSIVE FirstExisting(_, _, _)
FirstExisting(fs, candidates, entry) ==
  IF Len(candidates) = 0 THEN entry
  ELSE IF existsSync(fs, Head(candidates)) THEN Some(Head(candidates))
  ELSE FirstExisting(fs, Tail(candidates), entry)

\* config?.entry is truthy: a non-empty string, or any list.
HasEntry(config) ==
  /\ IsSome(config)
  /\ IsSome(config[1].entry)
  /\ (config[1].entry[1].isArray \/ config[1].entry[1].items[1] # "")

\* A variant that consults the config entry before the default files.
resolveEntry_ConfigFirst(positionals, fs, config) ==
  LET e0 == IF Len(positionals) > 0 THEN Some(positionals[1]) ELSE None
      e1 == IF Falsy(e0) /\ HasEntry(config)
            THEN LET ce == config[1].entry[1]
                 IN IF ~ce.isArray THEN Some(ce.items[1])
                    ELSE IF Len(ce.items) > 0 THEN Some(ce.items[1])
                    ELSE e0
            ELSE e0
  IN IF Falsy(e1) THEN FirstExisting(fs, defaultEntries, e1) ELSE e1

resolveEntry(positionals, fs, config) ==
  LET e0 == IF Len(positionals) > 0 THEN Some(positionals[1]) ELSE None
      e1 == IF Falsy(e0) THEN FirstExisting(fs, defaultEntries, e0) ELSE e0
  IN IF Falsy(e1) /\ HasEntry(config)
     THEN LET ce == config[1].entry[1]
          IN IF ~ce.isArray THEN Some(ce.items[1])
             ELSE IF Len(ce.items) > 0 THEN Some(ce.items[1])
             ELSE e1
     ELSE e1

effectiveOutdir(config) ==
  IF IsSome(config) /\ IsSome(config[1].outdir) /\ config[1].outdir[1] # ""
  THEN config[1].outdir[1] ELSE "dist"

effectiveMinify(config) ==
  IF IsSome(config) /\ IsSome(config[1].minify) THEN config[1].minify[1] ELSE TRUE

effectiveTarget(config) ==
  IF IsSome(config) /\ IsSome(config[1].target) /\ config[1].target[1] # ""
  THEN config[1].target[1] ELSE "bun"

\* ----------------------------------------------------------------- cleaning
\* A variant whose terse script calls rmSync without the existsSync guard.
cleanOutcome_TerseUnguarded(s, fs, outdir) ==
  IF existsSync(fs, outdir) THEN "removed"
  ELSE IF s = "terse" THEN "throw" ELSE "absent"

\* verbose: rmSync(outdir, {recursive, force}); terse: existsSync(outdir) and
\* then rmSync(outdir, {recursive}).  Neither throws on a missing directory.
cleanOutcome(s, fs, outdir) ==
  IF existsSync(fs, outdir) THEN "removed" ELSE "absent"

\* ------------------------------------------------------------------ console
NoSize == [whole |-> 0, frac |-> 0, decimals |-> 0, unit |-> ""]

Line(stream, text, arg, path, size) ==
  [stream |-> stream, text |-> text, arg |-> arg, path |-> path, size |-> size]

Log(text) == Line("stdout", text, "", <<>>, NoSize)
LogArg(text, arg) == Line("stdout", text, arg, <<>>, NoSize)
Err(text) == Line("stderr", text, "", <<>>, NoSize)
ErrArg(text, arg) == Line("stderr", text, arg, <<>>, NoSize)

\* A variant that prints only the first message.
failureLines_FirstOnly(logs) ==
  [i \in 1..(IF Len(logs) > 0 THEN 1 ELSE 0) |-> ErrArg("log", logs[i])]

\* console.error(message) for each message of result.logs
failureLines(logs) == [i \in 1..Len(logs) |-> ErrArg("log", logs[i])]

\* A variant that prints the output's absolute path.
outputLines_Absolute(s, outputs) ==
  IF s = "verbose"
  THEN [i \in 1..Len(outputs) |->
          Line("stdout", "ESM", "", outputs[i].path, formatSize(outputs[i].size))]
  ELSE <<>>

\* verbose: one line per output, `ESM <relative path> <formatted size>`;
\* terse: no line per output.
outputLines(s, outputs) ==
  IF s = "verbose"
  THEN [i \in 1..Len(outputs) |->
          Line("stdout", "ESM", "", relative(Cwd, outputs[i].path),
               formatSize(outputs[i].size))]
  ELSE <<>>

\* ---------------------------------------------------------------------- tsc
\* A variant that passes the entry with --project too.
tscArgs_AlwaysEntry(hasTsConfig, outdir, entry) ==
  <<"--declaration", "--emitDeclarationOnly", "--noEmit", "false", "--outDir", outdir>>
    \o (IF hasTsConfig
        THEN <<"--project", "tsconfig.json", entry>>
        ELSE <<"--esModuleInterop", "--skipLibCheck", "--moduleResolution", "bundler",
               "--target", "esnext", entry>>)

tscArgs(hasTsConfig, outdir, entry) ==
  <<"--declaration", "--emitDeclarationOnly", "--noEmit", "false", "--outDir", outdir>>
    \o (IF hasTsConfig
        THEN <<"--project", "tsconfig.json">>
        ELSE <<"--esModuleInterop", "--skipLibCheck", "--moduleResolution", "bundler",
               "--target", "esnext", entry>>)

\* A variant that ignores the subprocess status.
typeGenerationFailed_Never(status) == FALSE

\* tsc.exitCode !== 0 (verbose), tsc.status !== 0 (terse)
typeGenerationFailed(status) == status # 0

\* ------------------------------------------------------------------ bundler
\* What the collaborator can answer: a rejection, a failure result with some
\* log messages, or a success with some outputs written under outdir.  It
\* cannot succeed on an entry point that cleaning has just removed.
LogMessages == <<"error: could not resolve", "error: unexpected token",
                 "error: no matching export", "error: top-level await">>

OutputNames == <<"index.js", "chunk-a.js", "chunk-b.js", "chunk-c.js">>

OutputSizes == <<<<512, 1>>, <<>>, <<1023, 1023>>, <<0, 0, 3>>>>

BuildOutcomes(outdir, entry) ==
  {[kind |-> "throw", n |-> 0]}
    \cup {[kind |-> "fail", n |-> n] : n \in 0..MaxLogs}
    \cup (IF IsPrefix(Resolve(outdir), Resolve(entry))
          THEN {}
          ELSE {[kind |-> "ok", n |-> n] : n \in 0..MaxOutputs})

BuildResult(o, outdir) ==
  [success |-> o.kind = "ok",
   logs |-> IF o.kind = "fail" THEN SubSeq(LogMessages, 1, o.n) ELSE <<>>,
   outputs |-> IF o.kind = "ok"
               THEN [i \in 1..o.n |-> [path |-> Append(Resolve(outdir), OutputNames[i]),
                                       size |-> OutputSizes[i]]]
               ELSE <<>>]

Written(fs, res, outdir) ==
  IF res.success
  THEN fs \cup {Resolve(outdir)} \cup {res.outputs[i].path : i \in 1..Len(res.outputs)}
  ELSE fs

\* --------------------------------------------------------------------- main
InitRun ==
  [pc |-> "start", values |-> NoValues, positionals |-> <<>>,
   config |-> None, configPath |-> None, entry |-> None,
   outdir |-> None, minify |-> None, target |-> None, hasTsConfig |-> None,
   fs |-> disk, result |-> None, exitCode |-> None,
   out |-> <<>>, effects |-> <<>>, steps |-> <<>>]

Effect(op, path, entry, target, minify, args) ==
  [op |-> op, path |-> path, entry |-> entry, target |-> target,
   minify |-> minify, args |-> args]

\* A variant that records the status (process.exitCode = code) and goes on.
Exit_NoTermination(r, code) == [r EXCEPT !.exitCode = Some(code)]

\* process.exit(code)
Exit(r, code) == [r EXCEPT !.pc = "exited", !.exitCode = Some(code)]

\* the catch block of main: help text, the error's message, exit 1
Catch(r, message) ==
  Exit([r EXCEPT !.out = @ \o <<Err("helpMessage"), ErrArg("error", message)>>], 1)

wantsVersion(values) == values.version
\* A variant without the --help check.
wantsHelp_Never(values) == FALSE

wantsHelp(values) == values.help

\* The two scripts are separate runs on the same inputs; when both are
\* scheduled the terse script is run after the verbose one has exited.
Turn(s) ==
  /\ s \in scheduled
  /\ (s = "terse" /\ "verbose" \in scheduled) => run["verbose"].pc = "exited"

Step(r, name) == [r EXCEPT !.steps = Append(@, name)]

ParseArgs(s) ==
  /\ Turn(s)
  /\ run[s].pc = "start"
  /\ LET p == parse(argv)
         r == Step(run[s], "ParseArgs")
     IN run' = [run EXCEPT ![s] =
          IF p.threw THEN Catch(r, p.message)
          ELSE LET q == [r EXCEPT !.values = p.values, !.positionals = p.positionals]
               IN IF wantsVersion(p.values)
                  THEN Exit([q EXCEPT !.out = Append(@, Log("name@version"))], 0)
                  ELSE IF wantsHelp(p.values)
                  THEN Exit([q EXCEPT !.out = Append(@, Log("helpMessage"))], 0)
                  ELSE [q EXCEPT !.pc = "parsed"]]
  /\ UNCHANGED <<argv, configFile, disk, scheduled, bundler, tsc, bytes, formatted>>

LoadConfig(s) ==
  /\ Turn(s)
  /\ run[s].pc = "parsed"
  /\ LET l == loadConfig(s, configFile)
         r == Step(run[s], "LoadConfig")
     IN run' = [run EXCEPT ![s] =
          IF l.threw THEN Catch(r, "import failed")
          ELSE [r EXCEPT
                  !.pc = "loaded",
                  !.config = l.config,
                  !.configPath = l.path,
                  !.out = @ \o (IF l.warned
                                THEN <<Line("stderr", "Warning: Failed to load tsbun.config.ts",
                                            "import failed", <<>>, NoSize)>>
                                ELSE <<>>)
                           \o (IF s = "terse" /\ IsSome(l.config)
                               THEN <<Log("Using tsbun.config.ts...")>>
                               ELSE <<>>)]]
  /\ UNCHANGED <<argv, configFile, disk, scheduled, bundler, tsc, bytes, formatted>>

ResolveEntry(s) ==
  /\ Turn(s)
  /\ run[s].pc = "loaded"
  /\ LET r == Step(run[s], "ResolveEntry")
         e == resolveEntry(r.positionals, r.fs, r.config)
     IN run' = [run EXCEPT ![s] =
          IF Falsy(e)
          THEN Exit([r EXCEPT !.entry = e,
                              !.out = Append(@, Err("Could not find entry point"))], 1)
          ELSE [r EXCEPT !.pc = "resolved", !.entry = e]]
  /\ UNCHANGED <<argv, configFile, disk, scheduled, bundler, tsc, bytes, formatted>>

\* The start logs of the verbose script; it reads tsconfig.json's existence
\* here, before the output directory is removed.
startLines(s, entry, hasTsConfig, configPath, target) ==
  IF s = "verbose"
  THEN <<LogArg("CLI Building entry", entry)>>
         \o (IF hasTsConfig THEN <<Log("CLI Using tsconfig: tsconfig.json")>> ELSE <<>>)
         \o <<Log("CLI name vversion")>>
         \o (IF IsSome(configPath)
             THEN <<Line("stdout", "CLI Using tsbun config", "", configPath[1], NoSize)>>
             ELSE <<>>)
         \o <<LogArg("CLI Target", target), Log("CLI Cleaning output folder")>>
  ELSE <<LogArg("Building", entry)>>

Clean(s) ==
  /\ Turn(s)
  /\ run[s].pc = "resolved"
  /\ LET r == Step(run[s], "Clean")
         outdir == effectiveOutdir(r.config)
         minify == effectiveMinify(r.config)
         target == effectiveTarget(r.config)
         has == existsSync(r.fs, "tsconfig.json")
         outcome == cleanOutcome(s, r.fs, outdir)
         q == [r EXCEPT !.outdir = Some(outdir), !.minify = Some(minify),
                        !.target = Some(target),
                        !.hasTsConfig = IF s = "verbose" THEN Some(has) ELSE None,
                        !.out = @ \o startLines(s, r.entry[1], has, r.configPath, target)]
     IN run' = [run EXCEPT ![s] =
          IF outcome = "throw" THEN Catch(q, "ENOENT: no such file or directory")
          ELSE IF outcome = "removed"
          THEN [q EXCEPT !.pc = "cleaned",
                         !.fs = rmTree(@, outdir),
                         !.effects = Append(@, Effect("rm", outdir, "", "", TRUE, <<>>)),
                         !.out = @ \o (IF s = "verbose" THEN <<Log("ESM Build start")>> ELSE <<>>)]
          ELSE [q EXCEPT !.pc = "cleaned",
                         !.out = @ \o (IF s = "verbose" THEN <<Log("ESM Build start")>> ELSE <<>>)]]
  /\ UNCHANGED <<argv, configFile, disk, scheduled, bundler, tsc, bytes, formatted>>

Bundle(s) ==
  /\ Turn(s)
  /\ run[s].pc = "cleaned"
  /\ LET r0 == Step(run[s], "Bundle")
         outdir == r0.outdir[1]
         r == [r0 EXCEPT !.effects =
                 Append(@, Effect("build", outdir, r0.entry[1], r0.target[1], r0.minify[1], <<>>))]
     IN \E o \in (IF IsSome(bundler) THEN {bundler[1]} ELSE BuildOutcomes(outdir, r.entry[1])) :
          /\ bundler' = Some(o)
          /\ run' = [run EXCEPT ![s] =
               IF o.kind = "throw" THEN Catch(r, "Bundle failed")
               ELSE LET res == BuildResult(o, outdir)
                    IN [r EXCEPT !.pc = "bundled", !.result = Some(res),
                                 !.fs = Written(@, res, outdir)]]
  /\ UNCHANGED <<argv, configFile, disk, scheduled, tsc, bytes, formatted>>

Report(s) ==
  /\ Turn(s)
  /\ run[s].pc = "bundled"
  /\ LET r == run[s]
         res == r.result[1]
     IN run' = [run EXCEPT ![s] =
          IF ~res.success
          THEN Exit([r EXCEPT !.out = @ \o <<Err("Build failed!")>> \o failureLines(res.logs)], 1)
          ELSE [r EXCEPT !.pc = "reported",
                         !.out = @ \o outputLines(s, res.outputs)
                                   \o (IF s = "verbose"
                                       THEN <<Log("ESM Build success in duration ms")>>
                                       ELSE <<Log("JS Bundle created!"),
                                              Log("Generating types...")>>)]]
  /\ UNCHANGED <<argv, configFile, disk, scheduled, bundler, tsc, bytes, formatted>>

GenerateTypes(s) ==
  /\ Turn(s)
  /\ run[s].pc = "reported"
  /\ LET r0 == Step(run[s], "GenerateTypes")
         has == IF s = "verbose" THEN r0.hasTsConfig[1] ELSE existsSync(r0.fs, "tsconfig.json")
         args == tscArgs(has, r0.outdir[1], r0.entry[1])
         r == [r0 EXCEPT
                 !.hasTsConfig = Some(has),
                 !.out = @ \o (IF s = "terse" /\ has THEN <<Log("Using tsconfig.json...")>> ELSE <<>>),
                 !.effects = Append(@, Effect("tsc", "", "", "", TRUE, args))]
     IN \E status \in (IF IsSome(tsc) THEN {tsc[1]} ELSE {0, 2}) :
          /\ tsc' = Some(status)
          /\ run' = [run EXCEPT ![s] =
               IF typeGenerationFailed(status)
               THEN Exit([r EXCEPT !.out = Append(@, Err("Type generation failed!"))], 1)
               ELSE Exit([r EXCEPT !.out = @ \o (IF s = "terse"
                                                 THEN <<Log("Build complete!")>> ELSE <<>>)], 0)]
  /\ UNCHANGED <<argv, configFile, disk, scheduled, bundler, bytes, formatted>>

\* ------------------------------------------------------------------- inputs
Argvs ==
  {<<>>, <<"">>, <<"--watch">>, <<"../lib/cli.ts">>, <<"../lib/cli.ts", "second.ts">>,
   <<"--version">>, <<"-h">>, <<"--help", "../lib/cli.ts">>, <<"-v", "--help">>,
   <<"--bogus">>, <<"--version", "--bogus">>}

Entries ==
  {None, Some(EntryString("")), Some(EntryString("other.ts")), Some(EntryArray(<<>>)),
   Some(EntryArray(<<"a.ts", "b.ts">>)), Some(EntryArray(<<"", "b.ts">>))}

Modules ==
  [entry : Entries, outdir : {None, Some("out"), Some("../app")},
   minify : {None, Some(FALSE)}, target : {None, Some("node")}]

ConfigFiles(modules) ==
  {[exists |-> FALSE, throws |-> FALSE, module |-> NoModule],
   [exists |-> TRUE, throws |-> TRUE, module |-> NoModule]}
    \cup {[exists |-> TRUE, throws |-> FALSE, module |-> m] : m \in modules}

Disks ==
  {{Cwd} \cup {Resolve(p) : p \in present} :
     present \in SUBSET {"index.ts", "src/index.ts", "tsconfig.json", "dist"}}

InitInputs(modules) ==
  /\ argv \in Argvs
  /\ configFile \in ConfigFiles(modules)
  /\ disk \in Disks
  /\ run = [s \in Scripts |-> InitRun]
  /\ bundler = None
  /\ tsc = None
  /\ bytes = <<>>
  /\ formatted = None

\* One script is run.
Init ==
  /\ InitInputs(Modules)
  /\ scheduled \in {{s} : s \in Scripts}

Next ==
  \E s \in Scripts :
    \/ ParseArgs(s)
    \/ LoadConfig(s)
    \/ ResolveEntry(s)
    \/ Clean(s)
    \/ Bundle(s)
    \/ Report(s)
    \/ GenerateTypes(s)

Spec == Init /\ [][Next]_vars

\* Both scripts are run, one after the other, on the same inputs.
InitPair ==
  /\ InitInputs(Modules)
  /\ scheduled = Scripts

SpecPair == InitPair /\ [][Next]_vars

\* formatSize applied to a byte count.
LimbSamples == {0, 1, 512, 1023}

ByteCounts ==
  {<<>>} \cup UNION {{b \in [1..n -> LimbSamples] : b[n] # 0} : n \in 1..MaxLimbs}

InitFormat ==
  /\ bytes \in ByteCounts
  /\ formatted = None
  /\ argv = <<>>
  /\ configFile = [exists |-> FALSE, throws |-> FALSE, module |-> NoModule]
  /\ disk = {Cwd}
  /\ scheduled = {}
  /\ run = [s \in Scripts |-> InitRun]
  /\ bundler = None
  /\ tsc = None

Format ==
  /\ ~IsSome(formatted)
  /\ formatted' = Some(formatSize(bytes))
  /\ UNCHANGED <<argv, configFile, disk, scheduled, run, bundler, tsc, bytes>>

NextFormat == Format

SpecFormat == InitFormat /\ [][NextFormat]_vars

\* =================================================================== claims
Exited(s) == run[s].pc = "exited"
Did(s, step) == \E i \in DOMAIN run[s].steps : run[s].steps[i] = step
Printed(s, line) == \E i \in DOMAIN run[s].out : run[s].out[i] = line
LastStep(s) == run[s].steps[Len(run[s].steps)]
ArgsInclude(kinds) == \E i \in DOMAIN argv : TokenKind(argv[i]) \in kinds
OnDisk(p) == Resolve(p) \in disk
ConfigLoads == configFile.exists /\ ~configFile.throws
Order == <<"ParseArgs", "LoadConfig", "ResolveEntry", "Clean", "Bundle", "GenerateTypes">>
EffectsOf(s, op) == SelectSeq(run[s].effects, LAMBDA e : e.op = op)

\* The entry the default files give, or the fallback.
FromDefaults(fallback) ==
  IF OnDisk("index.ts") THEN Some("index.ts")
  ELSE IF OnDisk("src/index.ts") THEN Some("src/index.ts")
  ELSE fallback

\* What a failed entry resolution looks like: exit 1 with the message, and
\* nothing of the build started.
NoEntryFailure(s) ==
  /\ Exited(s)
  /\ run[s].exitCode = Some(1)
  /\ Printed(s, Err("Could not find entry point"))
  /\ LastStep(s) = "ResolveEntry"
  /\ run[s].effects = <<>>
  /\ run[s].fs = disk

EntryIs(s, expected) ==
  IF IsSome(expected)
  THEN run[s].entry = expected /\ ~(Exited(s) /\ LastStep(s) = "ResolveEntry")
  ELSE NoEntryFailure(s)

\* ----------------------------------------------------------------------- C1
\* The entry by the priority order, every given value taken as it is.
C1_EntryClaimed(s) ==
  IF Len(run[s].positionals) > 0 THEN Some(run[s].positionals[1])
  ELSE FromDefaults(
         IF ConfigLoads /\ IsSome(configFile.module.entry)
         THEN LET ce == configFile.module.entry[1]
              IN IF Len(ce.items) > 0 THEN Some(ce.items[1]) ELSE None
         ELSE None)

\* C1 as stated: the first positional argument wins over an existing default
\* file (index.ts before src/index.ts), which wins over the config entry (a
\* string used directly, a non-empty list giving its first element), which
\* wins over failure; without any, exit 1 with the message; the build steps
\* start only with a resolved entry.
C1_Original ==
  \A s \in scheduled :
    Did(s, "ResolveEntry") => EntryIs(s, C1_EntryClaimed(s))

\* The entry by the priority order, an empty string taken as not given.
C1_EntryAmended(s) ==
  IF Len(run[s].positionals) > 0 /\ run[s].positionals[1] # ""
  THEN Some(run[s].positionals[1])
  ELSE FromDefaults(
         IF ConfigLoads /\ IsSome(configFile.module.entry)
         THEN LET ce == configFile.module.entry[1]
              IN IF Len(ce.items) > 0 /\ ce.items[1] # "" THEN Some(ce.items[1]) ELSE None
         ELSE None)

\* C1 amended: the priority order holds with "given" read as "non-empty": an
\* empty-string positional counts as no positional, an empty-string config
\* entry (or a list whose first element is the empty string) as no entry.
C1_EntryPriority ==
  \A s \in scheduled :
    /\ Did(s, "ResolveEntry") => EntryIs(s, C1_EntryAmended(s))
    /\ Did(s, "Clean") => IsSome(run[s].entry) /\ run[s].entry[1] # ""

\* no positional, index.ts absent, src/index.ts present, config entry
\* "other.ts": the build started with src/index.ts
C1_Witness ==
  \E s \in scheduled :
    /\ Did(s, "Clean")
    /\ Len(run[s].positionals) = 0
    /\ ~OnDisk("index.ts") /\ OnDisk("src/index.ts")
    /\ ConfigLoads /\ configFile.module.entry = Some(EntryString("other.ts"))
    /\ run[s].entry = Some("src/index.ts")

\* ----------------------------------------------------------------------- C2
\* C2: when the bundler's result has success false, the run exits 1, every
\* log message of the result is printed, and tsc is never invoked.
C2_BundleFailure ==
  \A s \in scheduled :
    (IsSome(run[s].result) /\ ~run[s].result[1].success) =>
      /\ run[s].pc \in {"bundled", "exited"}
      /\ ~Did(s, "GenerateTypes")
      /\ EffectsOf(s, "tsc") = <<>>
      /\ Exited(s) =>
           /\ run[s].exitCode = Some(1)
           /\ \A i \in DOMAIN run[s].result[1].logs :
                Printed(s, ErrArg("log", run[s].result[1].logs[i]))

C2_Witness ==
  \E s \in scheduled :
    /\ Exited(s)
    /\ IsSome(run[s].result) /\ ~run[s].result[1].success
    /\ Len(run[s].result[1].logs) = MaxLogs

\* ----------------------------------------------------------------------- C3
ShortCircuited(s) ==
  /\ Exited(s)
  /\ run[s].steps = <<"ParseArgs">>
  /\ run[s].config = None
  /\ run[s].effects = <<>>
  /\ run[s].fs = disk
  /\ ~IsSome(bundler) /\ ~IsSome(tsc)

\* C3 as stated: a run whose arguments include --version or --help exits 0
\* before any config loading, cleaning, bundling or type generation.
C3_Original ==
  \A s \in scheduled :
    (ArgsInclude({"version", "help"}) /\ run[s].pc # "start") =>
      ShortCircuited(s) /\ run[s].exitCode = Some(0)

\* C3 amended: such a run ends before any config loading, cleaning, bundling
\* or type generation; it exits 0 when the arguments parse, and 1 (help text
\* and the parse error) when they also hold an option outside the schema.
C3_ShortCircuit ==
  \A s \in scheduled :
    (ArgsInclude({"version", "help"}) /\ run[s].pc # "start") =>
      /\ ShortCircuited(s)
      /\ run[s].exitCode = Some(IF ArgsInclude({"unknown"}) THEN 1 ELSE 0)

C3_Witness ==
  \E s \in scheduled :
    /\ argv = <<"--help", "../lib/cli.ts">>
    /\ ConfigLoads
    /\ OnDisk("index.ts") /\ OnDisk("dist")
    /\ Exited(s) /\ run[s].exitCode = Some(0)

\* ----------------------------------------------------------------------- C4
\* C4: a tsbun.config.ts whose load throws never aborts the run: a warning is
\* printed, the config is null, and the entry, outdir, minify and target are
\* those of a run without a config file.
C4_MalformedConfig ==
  \A s \in scheduled :
    (configFile.exists /\ configFile.throws /\ Did(s, "LoadConfig")) =>
      /\ Len(run[s].steps) = 2 => ~Exited(s)
      /\ Printed(s, Line("stderr", "Warning: Failed to load tsbun.config.ts",
                         "import failed", <<>>, NoSize))
      /\ run[s].config = None /\ run[s].configPath = None
      /\ Did(s, "ResolveEntry") =>
           EntryIs(s, IF Len(run[s].positionals) > 0 /\ run[s].positionals[1] # ""
                      THEN Some(run[s].positionals[1])
                      ELSE FromDefaults(None))
      /\ Did(s, "Clean") =>
           /\ run[s].outdir = Some("dist")
           /\ run[s].minify = Some(TRUE)
           /\ run[s].target = Some("bun")

C4_Witness ==
  \E s \in scheduled :
    /\ configFile.exists /\ configFile.throws
    /\ Exited(s) /\ run[s].exitCode = Some(0)
    /\ Did(s, "GenerateTypes")

\* ----------------------------------------------------------------------- C5
FullSuccess(s) ==
  /\ run[s].steps = Order
  /\ IsSome(run[s].entry) /\ run[s].entry[1] # ""
  /\ IsSome(run[s].result) /\ run[s].result[1].success
  /\ tsc = Some(0)

\* C5: every exit status is 0 or 1; outside a --version/--help short-circuit,
\* 0 is reached only with an entry resolved, the bundler successful and tsc
\* exited 0; a parse error, a missing entry, a bundler failure or rejection
\* and a non-zero tsc status each give 1.
C5_ExitStatus ==
  \A s \in scheduled :
    /\ IsSome(run[s].exitCode) <=> Exited(s)
    /\ Exited(s) =>
         /\ run[s].exitCode[1] \in {0, 1}
         /\ run[s].exitCode[1] = 0 <=>
              \/ run[s].steps = <<"ParseArgs">> /\ ArgsInclude({"version", "help"})
                   /\ ~ArgsInclude({"unknown"})
              \/ FullSuccess(s)
         /\ ArgsInclude({"unknown"}) => run[s].exitCode[1] = 1
         /\ (Did(s, "ResolveEntry") /\ Falsy(run[s].entry)) => run[s].exitCode[1] = 1
         /\ (IsSome(run[s].result) /\ ~run[s].result[1].success) => run[s].exitCode[1] = 1
         /\ (Did(s, "Bundle") /\ ~IsSome(run[s].result)) => run[s].exitCode[1] = 1
         /\ (Did(s, "GenerateTypes") /\ tsc # Some(0)) => run[s].exitCode[1] = 1

C5_Witness ==
  \E s \in scheduled :
    /\ Exited(s) /\ run[s].exitCode = Some(1)
    /\ Did(s, "GenerateTypes") /\ tsc = Some(2)

\* ----------------------------------------------------------------------- C6
StepsInOrder ==
  \A s \in scheduled :
    /\ IsPrefix(run[s].steps, Order)
    /\ Len(EffectsOf(s, "rm")) <= (IF Did(s, "Clean") THEN 1 ELSE 0)
    /\ Len(EffectsOf(s, "build")) = (IF Did(s, "Bundle") THEN 1 ELSE 0)
    /\ Len(EffectsOf(s, "tsc")) = (IF Did(s, "GenerateTypes") THEN 1 ELSE 0)
    /\ (Did(s, "ResolveEntry") /\ Falsy(run[s].entry)) =>
         run[s].effects = <<>> /\ run[s].fs = disk
    /\ (Did(s, "Bundle") /\ ~(IsSome(run[s].result) /\ run[s].result[1].success)) =>
         ~Did(s, "GenerateTypes")

ExitIsFinal == \A s \in Scripts : Exited(s) => run'[s] = run[s]

\* C6: the steps run in the order ParseArgs, LoadConfig, ResolveEntry, Clean,
\* Bundle, GenerateTypes, each at most once; once the run has exited nothing
\* more happens: no deletion after a failed entry resolution, no type
\* generation after a failed bundle, no earlier step again.
C6_FailFast == []StepsInOrder /\ [][ExitIsFinal]_vars

C6_Witness ==
  \E s \in scheduled :
    /\ Exited(s) /\ run[s].steps = SubSeq(Order, 1, 5)
    /\ IsSome(run[s].result) /\ ~run[s].result[1].success

\* ----------------------------------------------------------------------- C7
TsConfigSeen(s) ==
  IF s = "verbose" THEN OnDisk("tsconfig.json") ELSE existsSync(run[s].fs, "tsconfig.json")

UnitIndex(u) == CHOOSE i \in 0..(Len(sizes) - 1) : sizes[i + 1] = u

\* C8 as stated: for every byte count b, formatSize(b) has a unit among B, KB,
\* MB, GB, TB with b / 1024^index in [1, 1024), the unit being B when
\* b < 1024; formatSize(0) is "0 B"; the unit is never missing.
C8_FormatSize ==
  IsSome(formatted) =>
    /\ formatted[1].unit \in {sizes[i] : i \in DOMAIN sizes}
    /\ Len(bytes) <= 1 => formatted[1].unit = "B"
    /\ Len(bytes) >= 1 => Len(bytes) = UnitIndex(formatted[1].unit) + 1
    /\ Len(bytes) = 0 =>
         formatted[1] = [whole |-> 0, frac |-> 0, decimals |-> 0, unit |-> "B"]

\* ----------------------------------------------------------------------- C9
ArtifactsPrinted(s) ==
  \A i \in DOMAIN run[s].result[1].outputs :
    Printed(s, Line("stdout", "ESM", "",
                    relative(Cwd, run[s].result[1].outputs[i].path),
                    formatSize(run[s].result[1].outputs[i].size)))

ReportedSuccess(s) ==
  /\ IsSome(run[s].result) /\ run[s].result[1].success
  /\ run[s].pc = "reported" \/ Did(s, "GenerateTypes")

\* C9 as stated: after a successful bundle both scripts print, for each
\* output, its path relative to the working directory and its formatted
\* size, before tsc is invoked.
C9_Original ==
  \A s \in scheduled : ReportedSuccess(s) => ArtifactsPrinted(s)

\* C9 amended: the verbose script prints these lines before tsc is invoked;
\* the terse script prints no line per output (only "JS Bundle created!").
C9_ArtifactLines ==
  \A s \in scheduled :
    ReportedSuccess(s) =>
      IF s = "verbose"
      THEN ArtifactsPrinted(s)
      ELSE /\ Printed(s, Log("JS Bundle created!"))
           /\ \A i \in DOMAIN run[s].out : run[s].out[i].text # "ESM"

C9_Witness ==
  "verbose" \in scheduled
    /\ run["verbose"].pc = "reported"
    /\ Len(run["verbose"].result[1].outputs) = MaxOutputs
    /\ run["verbose"].outdir = Some("out")

\* ---------------------------------------------------------------------- C10
BothExited == \A s \in Scripts : s \in scheduled /\ Exited(s)

\* C10 as stated: on the same arguments, config file and filesystem the two
\* scripts perform the same effects (directory deleted, bundler call, tsc
\* argument list) and end with the same exit status.
C10_Original ==
  BothExited =>
    /\ run["verbose"].effects = run["terse"].effects
    /\ run["verbose"].exitCode = run["terse"].exitCode

\* Cleaning removed tsconfig.json: the output directory is or contains it.
TsConfigCleaned ==
  /\ OnDisk("tsconfig.json")
  /\ IsSome(run["verbose"].outdir)
  /\ IsPrefix(Resolve(run["verbose"].outdir[1]), Resolve("tsconfig.json"))

\* C10 amended: the two scripts delete the same directory and call the
\* bundler alike; they call tsc with the same arguments and end with the
\* same status provided the output directory neither is nor contains
\* tsconfig.json.  When it does, the verbose script (which looked before
\* cleaning) passes --project tsconfig.json and the terse script (which looks
\* after bundling) the fallback flags.
C10_SameEffects ==
  BothExited =>
    /\ EffectsOf("verbose", "rm") = EffectsOf("terse", "rm")
    /\ EffectsOf("verbose", "build") = EffectsOf("terse", "build")
    /\ run["verbose"].fs = run["terse"].fs
    /\ ~TsConfigCleaned =>
         /\ run["verbose"].effects = run["terse"].effects
         /\ run["verbose"].exitCode = run["terse"].exitCode
    /\ (TsConfigCleaned /\ Did("verbose", "GenerateTypes")) =>
         /\ Did("terse", "GenerateTypes")
         /\ run["verbose"].hasTsConfig = Some(TRUE)
         /\ run["terse"].hasTsConfig = Some(FALSE)

C10_Witness ==
  /\ BothExited
  /\ ~TsConfigCleaned /\ OnDisk("tsconfig.json") /\ ~OnDisk("dist")
  /\ Len(run["terse"].effects) = 2
  /\ run["verbose"].exitCode = Some(0)

====
